---- MODULE Spec2Model ----
(***************************************************************************)
(* A model of cma::arena, cma::block and cma::cma_resource                 *)
(* (include/cma/cmalib.h): a bump allocator over a singly linked chain of  *)
(* blocks, with markers, rollback and an in-place object factory.          *)
(*                                                                         *)
(* Addresses and sizes are machine words of WordBits bits; pointer and     *)
(* size_t arithmetic is done modulo 2^WordBits, as the build does it.      *)
(* A block is named by its index in `blocks` (its identity, its address),  *)
(* 0 is nullptr.                                                           *)
(***************************************************************************)
EXTENDS Integers, Sequences, FiniteSets, TLC

\* ------------------------------------------------------------------ bounds
\* Width of std::size_t / std::uintptr_t in the model.
WordBits == 20
\* Number of calls made on the arena in one run.
MaxOps == 4
\* Number of markers the caller keeps.
MaxMarkers == 2

\* ------------------------------------------------------- program constants
\* alignof(std::max_align_t)
MaxAlign == 16
\* the floor of the initial block size
MinBlockSize == 1024
\* the default initial block size
DefaultBlockSize == 64 * 1024

NULL == 0
Word == 2 ^ WordBits
SIZE_MAX == Word - 1
PTRDIFF_MAX == 2 ^ (WordBits - 1) - 1

Max(a, b) == IF a >= b THEN a ELSE b

\* ------------------------------------------------------------ impl helpers
\* bitwise AND of two words
RECURSIVE BitAnd(_, _)
BitAnd(a, b) ==
    IF a = 0 \/ b = 0 THEN 0
    ELSE (a % 2) * (b % 2) + 2 * BitAnd(a \div 2, b \div 2)

\* std::has_single_bit(x)
is_pow_2(x) == \E k \in 0..(WordBits - 1) : x = 2 ^ k

\* align_up with the mask forgotten: addr + (alignment - 1)
align_up_unmasked(p, alignment) == (p + ((alignment - 1) % Word)) % Word

\* (addr + (alignment - 1)) & ~(alignment - 1), in word arithmetic;
\* x & ~m is computed as x - (x & m), which is the same word for every x, m
align_up(p, alignment) ==
    LET mask == (alignment - 1) % Word
        sum  == (p + mask) % Word
    IN  sum - BitAnd(sum, mask)

\* an addition that returns its first operand and reports no overflow
addition_dropping_second(a, b) == [res |-> a, overflow |-> FALSE]

\* res = a + b; return res < a
overflow_addition(a, b) ==
    LET res == (a + b) % Word
    IN  [res |-> res, overflow |-> res < a]

\* ------------------------------------------------------------------- state
VARIABLES
    blocks,       \* every block made by `new block`, by identity: data, cur, end, next, capacity
    released,     \* per block, how often ::operator delete ran on its storage
    _block_size,  \* arena::_block_size
    _head,        \* arena::_head
    _active,      \* arena::_active
    alive,        \* the arena object is constructed and not yet destroyed
    markers,      \* the markers the caller holds, in the order create_marker returned them
    ret,          \* the last call: its arguments, its result and the state it started from
    scn,          \* the caller's record-and-replay run around one marker
    ops           \* number of calls made so far

vars == <<blocks, released, _block_size, _head, _active, alive, markers, ret, scn, ops>>

\* -------------------------------------------------------------- the heap
\* ::operator new: the lowest address it hands out
HeapStart == 4096
\* distance operator new leaves between the highest block and a new one
Gaps == {0, 16}
\* operator new reports failure
NoMem == -1

RECURSIVE SeqMaxEnd(_, _)
SeqMaxEnd(blks, i) ==
    IF i = 0 THEN HeapStart ELSE Max(blks[i].end, SeqMaxEnd(blks, i - 1))

\* ::operator new(bytes): storage aligned for max_align_t that overlaps no
\* live block, or NoMem (std::bad_alloc)
operator_new(blks, bytes, gap) ==
    LET top  == SeqMaxEnd(blks, Len(blks))
        base == ((top + MaxAlign - 1) \div MaxAlign) * MaxAlign + gap
    IN  IF gap = NoMem \/ bytes > PTRDIFF_MAX \/ base + bytes > PTRDIFF_MAX
        THEN NoMem
        ELSE base

\* block::block(bytes), given the storage operator new returned
new_block(data, bytes) ==
    [data |-> data, cur |-> data, end |-> data + bytes, next |-> NULL,
     capacity |-> bytes]

\* a try_alloc that serves the request from the first block with room for it
try_alloc_first_fit(blks, act, bytes, alignment) ==
    LET fits == { b \in 1..Len(blks) :
                    (blks[b].end - align_up(blks[b].cur, alignment)) % Word >= bytes }
        b == IF fits = {} THEN act ELSE CHOOSE x \in fits : \A y \in fits : x <= y
        aligned == align_up(blks[b].cur, alignment)
    IN  IF fits = {}
        THEN [p |-> NULL, blocks |-> blks]
        ELSE [p |-> aligned,
              blocks |-> [blks EXCEPT ![b].cur = (aligned + bytes) % Word]]

\* a try_alloc that stores the aligned cursor before it tests for room
try_alloc_aligning_first(blks, act, bytes, alignment) ==
    LET aligned == align_up(blks[act].cur, alignment)
        room    == (blks[act].end - aligned) % Word
    IN  IF room < bytes
        THEN [p |-> NULL, blocks |-> [blks EXCEPT ![act].cur = aligned]]
        ELSE [p |-> aligned,
              blocks |-> [blks EXCEPT ![act].cur = (aligned + bytes) % Word]]

\* ------------------------------------------------------------------ arena
\* arena::try_alloc_at_active: the result pointer and the blocks afterwards
try_alloc_at_active(blks, act, bytes, alignment) ==
    LET aligned == align_up(blks[act].cur, alignment)
        room    == (blks[act].end - aligned) % Word
    IN  IF room < bytes
        THEN [p |-> NULL, blocks |-> blks]
        ELSE [p |-> aligned,
              blocks |-> [blks EXCEPT ![act].cur = (aligned + bytes) % Word]]

\* the alignment allocate_bytes works with
effective_alignment(alignment) ==
    IF alignment = 0 \/ ~is_pow_2(alignment) THEN MaxAlign ELSE alignment

\* the capacity allocate_bytes gives a new block
new_capacity(active_capacity, need, block_size) ==
    Max(Max((active_capacity * 2) % Word, need), block_size)

\* an allocate_bytes that makes a new block active without linking it
allocate_nonzero_unlinked(blks, act, block_size, bytes, alignment0, gap) ==
    LET alignment == effective_alignment(alignment0)
        t1 == try_alloc_at_active(blks, act, bytes, alignment)
        ov == overflow_addition(bytes, alignment)
        new_cap == new_capacity(t1.blocks[act].capacity, ov.res, block_size)
        data == operator_new(t1.blocks, new_cap, gap)
        b == Len(t1.blocks) + 1
        t2 == try_alloc_at_active(Append(t1.blocks, new_block(data, new_cap)),
                                  b, bytes, alignment)
    IN  IF t1.p # NULL
        THEN [p |-> t1.p, threw |-> FALSE, blocks |-> t1.blocks, active |-> act]
        ELSE IF ov.overflow \/ data = NoMem
        THEN [p |-> NULL, threw |-> TRUE, blocks |-> t1.blocks, active |-> act]
        ELSE [p |-> t2.p, threw |-> t2.p = NULL, blocks |-> t2.blocks, active |-> b]

\* allocate_bytes past the bytes == 0 test
allocate_nonzero(blks, act, block_size, bytes, alignment0, gap) ==
    LET alignment == effective_alignment(alignment0)
        t1 == try_alloc_at_active(blks, act, bytes, alignment)
        ov == overflow_addition(bytes, alignment)
        new_cap == new_capacity(t1.blocks[act].capacity, ov.res, block_size)
        data == operator_new(t1.blocks, new_cap, gap)
        b == Len(t1.blocks) + 1
        linked == Append([t1.blocks EXCEPT ![act].next = b], new_block(data, new_cap))
        t2 == try_alloc_at_active(linked, b, bytes, alignment)
    IN  IF t1.p # NULL
        THEN [p |-> t1.p, threw |-> FALSE, blocks |-> t1.blocks, active |-> act]
        ELSE IF ov.overflow \/ data = NoMem
        THEN [p |-> NULL, threw |-> TRUE, blocks |-> t1.blocks, active |-> act]
        ELSE IF t2.p # NULL
        THEN [p |-> t2.p, threw |-> FALSE, blocks |-> t2.blocks, active |-> b]
        ELSE [p |-> NULL, threw |-> TRUE, blocks |-> t2.blocks, active |-> b]

\* allocate_bytes without the bytes == 0 test
allocate_bytes_no_zero_test(blks, act, block_size, bytes, alignment, gap) ==
    allocate_nonzero(blks, act, block_size, bytes, alignment, gap)

\* arena::allocate_bytes
allocate_bytes(blks, act, block_size, bytes, alignment, gap) ==
    IF bytes = 0
    THEN [p |-> NULL, threw |-> FALSE, blocks |-> blks, active |-> act]
    ELSE allocate_nonzero(blks, act, block_size, bytes, alignment, gap)

\* arena::create_marker
create_marker(blks, act) ==
    [mem |-> act, cur |-> IF act # NULL THEN blks[act].cur ELSE NULL]

\* a reset that empties the first block after the marker's and stops
reset_first_only(blks, b) ==
    IF b = NULL THEN blks ELSE [blks EXCEPT ![b].cur = blks[b].data]

\* the loop of rollback_to: b->cur = b->data for b and every block after it
RECURSIVE reset_from(_, _)
reset_from(blks, b) ==
    IF b = NULL THEN blks
    ELSE reset_from([blks EXCEPT ![b].cur = blks[b].data], blks[b].next)

\* rollback_to without the loop over the later blocks
rollback_to_no_reset(blks, act, m) ==
    IF m.mem = NULL
    THEN [blocks |-> blks, active |-> act]
    ELSE [blocks |-> [blks EXCEPT ![m.mem].cur = m.cur], active |-> m.mem]

\* arena::rollback_to
rollback_to(blks, act, m) ==
    IF m.mem = NULL
    THEN [blocks |-> blks, active |-> act]
    ELSE LET set == [blks EXCEPT ![m.mem].cur = m.cur]
         IN  [blocks |-> reset_from(set, set[m.mem].next), active |-> m.mem]

\* block::~block
destroy_block(b) ==
    [b EXCEPT !.data = NULL, !.cur = NULL, !.end = NULL, !.capacity = 0]

\* free_all deleting the first block only: the loop left out
free_first_only(blks, rel, curr) ==
    IF curr = NULL THEN [blocks |-> blks, released |-> rel]
    ELSE [blocks |-> [blks EXCEPT ![curr] = destroy_block(blks[curr])],
          released |-> [rel EXCEPT ![curr] = rel[curr] + 1]]

\* the loop of arena::free_all: delete curr, then go on with the next it read
RECURSIVE free_from(_, _, _)
free_from(blks, rel, curr) ==
    IF curr = NULL THEN [blocks |-> blks, released |-> rel]
    ELSE free_from([blks EXCEPT ![curr] = destroy_block(blks[curr])],
                   [rel EXCEPT ![curr] = rel[curr] + 1],
                   blks[curr].next)

\* arena::free_all
free_all(blks, rel, head) ==
    LET f == free_from(blks, rel, head)
    IN  [blocks |-> f.blocks, released |-> f.released, head |-> NULL, active |-> NULL]

\* the constructor giving _active a block of its own instead of _head
arena_ctor_two_blocks(initial_block_size, gap) ==
    LET block_size == Max(initial_block_size, MinBlockSize)
        first == <<new_block(operator_new(<<>>, block_size, gap), block_size)>>
    IN  [block_size |-> block_size,
         blocks |-> Append(first, new_block(operator_new(first, block_size, gap), block_size)),
         head |-> 1,
         active |-> 2]

\* arena::arena(initial_block_size), given what operator new returned
arena_ctor(initial_block_size, gap) ==
    LET block_size == Max(initial_block_size, MinBlockSize)
    IN  [block_size |-> block_size,
         blocks |-> <<new_block(operator_new(<<>>, block_size, gap), block_size)>>,
         head |-> 1,
         active |-> 1]

\* arena::make<T>, T given by sizeof(T), alignof(T) and whether its
\* constructor throws
\* a make that rolls back to its marker on success as well
make_always_rolls_back(blks, act, block_size, T, ctor_throws, gap) ==
    LET m == create_marker(blks, act)
        a == allocate_bytes(blks, act, block_size, T.size, T.align, gap)
        r == rollback_to(a.blocks, a.active, m)
    IN  IF a.threw
        THEN [p |-> NULL, threw |-> "bad_alloc", blocks |-> a.blocks, active |-> a.active]
        ELSE [p |-> a.p, threw |-> IF ctor_throws THEN "ctor" ELSE "none",
              blocks |-> r.blocks, active |-> r.active]

make(blks, act, block_size, T, ctor_throws, gap) ==
    LET m == create_marker(blks, act)
        a == allocate_bytes(blks, act, block_size, T.size, T.align, gap)
        r == rollback_to(a.blocks, a.active, m)
    IN  IF a.threw
        THEN [p |-> NULL, threw |-> "bad_alloc", blocks |-> a.blocks, active |-> a.active]
        ELSE IF ctor_throws
        THEN [p |-> a.p, threw |-> "ctor", blocks |-> r.blocks, active |-> r.active]
        ELSE [p |-> a.p, threw |-> "none", blocks |-> a.blocks, active |-> a.active]

\* ----------------------------------------------------------- cma_resource
\* do_allocate calling allocate_bytes(bytes), the alignment argument dropped
do_allocate_default_alignment(blks, act, block_size, bytes, alignment, gap) ==
    allocate_bytes(blks, act, block_size, bytes, MaxAlign, gap)

\* cma_resource::do_allocate: return _a->allocate_bytes(bytes, alignment)
do_allocate(blks, act, block_size, bytes, alignment, gap) ==
    allocate_bytes(blks, act, block_size, bytes, alignment, gap)

\* a do_deallocate that takes back the most recent allocation
do_deallocate_reclaims_last(blks, act, p, bytes, alignment) ==
    IF p # NULL /\ (p + bytes) % Word = blks[act].cur
    THEN [blocks |-> [blks EXCEPT ![act].cur = p], active |-> act]
    ELSE [blocks |-> blks, active |-> act]

\* cma_resource::do_deallocate: the empty body
do_deallocate(blks, act, p, bytes, alignment) ==
    [blocks |-> blks, active |-> act]

\* ----------------------------------------------------------------- inputs
\* a request no block can hold: bytes + 64 wraps to 0
Huge == SIZE_MAX - 63

\* the constructor calls a run starts from: the initial_block_size argument
\* (the default when omitted) and the gap operator new left before the block
Constructions == { <<100, 16>>, <<1030, 0>>, <<DefaultBlockSize, 0>> }

\* (bytes, alignment) arguments of allocate_bytes
Requests ==
    { <<0, 0>>, <<0, 64>>, <<1, 3>>, <<1, 64>>, <<100, 0>>, <<200, 8>>,
      <<1000, 16>>, <<1020, 1>>, <<3008, 64>>, <<Huge, 64>> }

\* the types make<T> is called with
Types == { [size |-> 200, align |-> 8], [size |-> 3008, align |-> 64] }

\* ----------------------------------------------------------------- actions
\* what ::operator new may answer in a call of allocate_bytes(bytes, alignment):
\* a place or NoMem when the call gets as far as `new block`, nothing to
\* choose when it does not
new_outcomes(bytes, alignment) ==
    IF /\ bytes # 0
       /\ try_alloc_at_active(blocks, _active, bytes, effective_alignment(alignment)).p = NULL
       /\ ~overflow_addition(bytes, effective_alignment(alignment)).overflow
    THEN Gaps \cup {NoMem}
    ELSE {0}

\* what a call starts from
Pre == [active |-> _active, cur |-> blocks[_active].cur, nblocks |-> Len(blocks)]

NoScn == [m |-> 0, S |-> <<>>, pos |-> 0, ok |-> TRUE]

\* the caller's run after a successful allocate(bytes > 0): it records the
\* request and its address after the marker, or, after rollback_to(marker),
\* compares the address with the recorded one when the request is the
\* recorded one
scn_after_allocate(bytes, alignment, p) ==
    IF scn.m = 0 THEN NoScn
    ELSE IF scn.pos = 0
    THEN [scn EXCEPT !.S = Append(@, [bytes |-> bytes, alignment |-> alignment, p |-> p])]
    ELSE IF scn.pos <= Len(scn.S)
            /\ scn.S[scn.pos].bytes = bytes /\ scn.S[scn.pos].alignment = alignment
    THEN [scn EXCEPT !.pos = @ + 1, !.ok = @ /\ (p = scn.S[scn.pos].p)]
    ELSE NoScn

Init ==
    \E c \in Constructions :
        LET a == arena_ctor(c[1], c[2])
        IN  /\ blocks = a.blocks
            /\ released = <<0>>
            /\ _block_size = a.block_size
            /\ _head = a.head
            /\ _active = a.active
            /\ alive = TRUE
            /\ markers = <<>>
            /\ ret = [op |-> "arena", bytes |-> c[1], alignment |-> 0, p |-> NULL,
                      threw |-> "none", m |-> 0,
                      pre |-> [active |-> NULL, cur |-> NULL, nblocks |-> 0]]
            /\ scn = NoScn
            /\ ops = 0

Allocate(bytes, alignment, gap) ==
    /\ alive /\ ops < MaxOps
    /\ gap \in new_outcomes(bytes, alignment)
    /\ \E r \in {allocate_bytes(blocks, _active, _block_size, bytes, alignment, gap)} :
           /\ blocks' = r.blocks
           /\ _active' = r.active
           /\ released' = released \o [i \in 1..(Len(r.blocks) - Len(blocks)) |-> 0]
           /\ ret' = [op |-> "allocate_bytes", bytes |-> bytes, alignment |-> alignment,
                      p |-> r.p, threw |-> IF r.threw THEN "bad_alloc" ELSE "none",
                      m |-> 0, pre |-> Pre]
           /\ scn' = IF r.threw \/ bytes = 0 THEN NoScn
                     ELSE scn_after_allocate(bytes, alignment, r.p)
    /\ ops' = ops + 1
    /\ UNCHANGED <<_block_size, _head, alive, markers>>

CreateMarker ==
    /\ alive /\ ops < MaxOps /\ Len(markers) < MaxMarkers
    /\ \E m \in {create_marker(blocks, _active)} :
           /\ markers' = Append(markers, [mem |-> m.mem, cur |-> m.cur, stale |-> FALSE])
           /\ ret' = [op |-> "create_marker", bytes |-> 0, alignment |-> 0, p |-> m.cur,
                      threw |-> "none", m |-> Len(markers) + 1, pre |-> Pre]
    /\ scn' = [m |-> Len(markers) + 1, S |-> <<>>, pos |-> 0, ok |-> TRUE]
    /\ ops' = ops + 1
    /\ UNCHANGED <<blocks, released, _block_size, _head, _active, alive>>

RollbackTo(i) ==
    /\ alive /\ ops < MaxOps
    /\ \E m \in {markers[i]} : \E r \in {rollback_to(blocks, _active, markers[i])} :
           /\ blocks' = r.blocks
           /\ _active' = r.active
           /\ markers' = [k \in DOMAIN markers |->
                            IF k > i /\ (markers[k].mem # m.mem \/ markers[k].cur # m.cur)
                            THEN [markers[k] EXCEPT !.stale = TRUE]
                            ELSE markers[k]]
           /\ ret' = [op |-> "rollback_to", bytes |-> 0, alignment |-> 0, p |-> m.cur,
                      threw |-> "none", m |-> i, pre |-> Pre]
    /\ scn' = IF scn.m = i /\ scn.pos = 0 /\ scn.S # <<>>
              THEN [scn EXCEPT !.pos = 1]
              ELSE NoScn
    /\ ops' = ops + 1
    /\ UNCHANGED <<released, _block_size, _head, alive>>

Make(T, ctor_throws, gap) ==
    /\ alive /\ ops < MaxOps
    /\ gap \in new_outcomes(T.size, T.align)
    /\ \E r \in {make(blocks, _active, _block_size, T, ctor_throws, gap)} :
           /\ blocks' = r.blocks
           /\ _active' = r.active
           /\ released' = released \o [i \in 1..(Len(r.blocks) - Len(blocks)) |-> 0]
           /\ ret' = [op |-> "make", bytes |-> T.size, alignment |-> T.align,
                      p |-> r.p, threw |-> r.threw, m |-> 0, pre |-> Pre]
    /\ scn' = NoScn
    /\ ops' = ops + 1
    /\ UNCHANGED <<_block_size, _head, alive, markers>>

\* arena::~arena
Destroy ==
    /\ alive /\ ops < MaxOps
    /\ \E f \in {free_all(blocks, released, _head)} :
           /\ blocks' = f.blocks
           /\ released' = f.released
           /\ _head' = f.head
           /\ _active' = f.active
    /\ alive' = FALSE
    /\ ret' = [op |-> "~arena", bytes |-> 0, alignment |-> 0, p |-> NULL,
               threw |-> "none", m |-> 0,
               pre |-> [active |-> _active, cur |-> NULL, nblocks |-> Len(blocks)]]
    /\ scn' = NoScn
    /\ ops' = ops + 1
    /\ UNCHANGED <<_block_size, markers>>

Next ==
    \/ \E rq \in Requests, gap \in Gaps \cup {NoMem} : Allocate(rq[1], rq[2], gap)
    \/ CreateMarker
    \/ \E i \in DOMAIN markers : RollbackTo(i)
    \/ \E T \in Types, ctor_throws \in BOOLEAN, gap \in Gaps \cup {NoMem} :
          Make(T, ctor_throws, gap)
    \/ Destroy

Spec == Init /\ [][Next]_vars

\* ---------------------------------------------- the arena behind an adapter
\* the (p, bytes, alignment) arguments of do_deallocate: what the last call
\* was about, or the first byte of the active block
Deallocations ==
    IF alive
    THEN { <<ret.p, ret.bytes, ret.alignment>>, <<blocks[_active].data, 1, 1>> }
    ELSE {}

DoAllocate(bytes, alignment, gap) ==
    /\ alive /\ ops < MaxOps
    /\ gap \in new_outcomes(bytes, alignment)
    /\ \E r \in {do_allocate(blocks, _active, _block_size, bytes, alignment, gap)} :
           /\ blocks' = r.blocks
           /\ _active' = r.active
           /\ released' = released \o [i \in 1..(Len(r.blocks) - Len(blocks)) |-> 0]
           /\ ret' = [op |-> "do_allocate", bytes |-> bytes, alignment |-> alignment,
                      p |-> r.p, threw |-> IF r.threw THEN "bad_alloc" ELSE "none",
                      m |-> 0, pre |-> Pre]
    /\ scn' = NoScn
    /\ ops' = ops + 1
    /\ UNCHANGED <<_block_size, _head, alive, markers>>

DoDeallocate(p, bytes, alignment) ==
    /\ alive /\ ops < MaxOps
    /\ \E r \in {do_deallocate(blocks, _active, p, bytes, alignment)} :
           /\ blocks' = r.blocks
           /\ _active' = r.active
    /\ ret' = [op |-> "do_deallocate", bytes |-> bytes, alignment |-> alignment,
               p |-> p, threw |-> "none", m |-> 0, pre |-> Pre]
    /\ scn' = NoScn
    /\ ops' = ops + 1
    /\ UNCHANGED <<released, _block_size, _head, alive, markers>>

\* rollback_to with a marker that no earlier rollback has passed
RollbackToValid(i) == ~markers[i].stale /\ RollbackTo(i)

\* a container allocating through the adapter, its owner using markers
NextAdapter ==
    \/ \E rq \in Requests, gap \in Gaps \cup {NoMem} : DoAllocate(rq[1], rq[2], gap)
    \/ \E d \in Deallocations : DoDeallocate(d[1], d[2], d[3])
    \/ CreateMarker
    \/ \E i \in DOMAIN markers : RollbackToValid(i)
    \/ Destroy

SpecAdapter == Init /\ [][NextAdapter]_vars

\* the arena used as its contract allows: no rollback to a stale marker
NextValid ==
    \/ \E rq \in Requests, gap \in Gaps \cup {NoMem} : Allocate(rq[1], rq[2], gap)
    \/ CreateMarker
    \/ \E i \in DOMAIN markers : RollbackToValid(i)
    \/ \E T \in Types, ctor_throws \in BOOLEAN, gap \in Gaps \cup {NoMem} :
          Make(T, ctor_throws, gap)
    \/ Destroy

SpecValid == Init /\ [][NextValid]_vars

\* ------------------------------------------------- what the claims speak of
\* the smallest multiple of a that is >= x, in unbounded arithmetic
RoundUp(x, a) == ((x + a - 1) \div a) * a

\* the alignment a request is entitled to: the requested one when it is a
\* non-zero power of two, the platform's maximum natural alignment otherwise
EffectiveAlignment(alignment) ==
    IF alignment > 0 /\ (\E k \in 0..WordBits : alignment = 2 ^ k)
    THEN alignment ELSE MaxAlign

\* the request of the last call fits in what was left of the block that was
\* active when the call started
FitsBefore ==
    RoundUp(ret.pre.cur, EffectiveAlignment(ret.alignment)) + ret.bytes
        <= blocks[ret.pre.active].end

\* the last call was a successful allocate_bytes(bytes > 0, ...)
Allocated == ret.op = "allocate_bytes" /\ ret.bytes > 0 /\ ret.threw = "none"

\* the blocks reachable from b by next links, b included
RECURSIVE Chain(_, _)
Chain(blks, b) == IF b = NULL THEN {} ELSE {b} \cup Chain(blks, blks[b].next)

\* C1: every successful allocate(bytes > 0) returns a region inside the
\* storage of the block that is active when the call returns:
\* data <= p and p + bytes <= end.
C1_RegionInsideActiveBlock ==
    Allocated =>
        /\ blocks[_active].data <= ret.p
        /\ ret.p + ret.bytes <= blocks[_active].end

C3_ZeroIsNoOp ==
    [][ (ret'.op = "allocate_bytes" /\ ret'.bytes = 0 /\ ops' = ops + 1)
        => (/\ ret'.p = NULL /\ ret'.threw = "none"
            /\ UNCHANGED <<blocks, released, _block_size, _head, _active>>) ]_vars

\* C3 witness: a zero-byte request at alignment 64 was made while the cursor
\* of the active block was not 64-aligned and later blocks existed
C3_Witness ==
    /\ ret.op = "allocate_bytes" /\ ret.bytes = 0 /\ ret.alignment = 64
    /\ blocks[_active].cur % 64 # 0
    /\ Len(blocks) > 1

\* C4: a successful allocate whose request does not fit in what is left of
\* the active block creates exactly one block, of capacity
\* >= max(2 x capacity of the block active before, bytes + effective
\* alignment, growth seed), makes it active and returns an address in it.
C4_GrowthWhenNoFit ==
    (Allocated /\ ~FitsBefore) =>
        /\ Len(blocks) = ret.pre.nblocks + 1
        /\ _active = Len(blocks)
        /\ blocks[_active].capacity >= 2 * blocks[ret.pre.active].capacity
        /\ blocks[_active].capacity >= ret.bytes + EffectiveAlignment(ret.alignment)
        /\ blocks[_active].capacity >= _block_size
        /\ blocks[_active].data <= ret.p
        /\ ret.p + ret.bytes <= blocks[_active].end

\* C5: after rollback_to(m), re-issuing the requests that were served after m
\* returns the addresses they returned the first time.
C5_ReplayReturnsSameAddresses == scn.ok

\* C6: after a make<T> whose constructor threw, the next
\* allocate_bytes(sizeof(T), alignof(T)) returns the address the failed
\* construction used.
C6_FailedMakeLeavesArenaAsBefore ==
    [][ (/\ ret.op = "make" /\ ret.threw = "ctor"
         /\ ret'.op = "allocate_bytes" /\ ops' = ops + 1
         /\ ret'.bytes = ret.bytes /\ ret'.alignment = ret.alignment
         /\ ret'.threw = "none")
        => ret'.p = ret.p ]_vars

\* C7: after rollback_to(m) the active block is m's block, its cursor is the
\* cursor saved in m, and every block reachable strictly after it by next
\* links has cursor = data.
C7_RollbackRestoresMarker ==
    ret.op = "rollback_to" =>
        LET m == markers[ret.m]
        IN  /\ _active = m.mem
            /\ blocks[m.mem].cur = m.cur
            /\ \A b \in Chain(blocks, blocks[m.mem].next) :
                   blocks[b].cur = blocks[b].data

\* C7 witness: of two markers the older was rolled back to, from a later
\* block that had been allocated from
C7_Witness ==
    /\ ret.op = "rollback_to" /\ ret.m = 1 /\ Len(markers) = 2
    /\ ret.pre.active # _active
    /\ ret.pre.active \in Chain(blocks, blocks[_active].next)
    /\ ret.pre.cur # blocks[ret.pre.active].data
    /\ markers[2].mem = ret.pre.active

\* C8: of two successive successful allocate(bytes > 0) calls served by the
\* same block with nothing in between, the second address is at least the
\* first address plus the first size.
C8_AddressesIncrease ==
    [][ (/\ Allocated /\ Allocated' /\ ops' = ops + 1
         /\ _active' = _active)
        => ret'.p >= ret.p + ret.bytes ]_vars

\* C9: a request that does not fit in the active block and whose
\* bytes + effective alignment exceeds the largest size_t fails with
\* bad_alloc and creates no block.
C9_OverflowFails ==
    (/\ ret.op = "allocate_bytes" /\ ret.bytes > 0
     /\ ~FitsBefore
     /\ ret.bytes + EffectiveAlignment(ret.alignment) > SIZE_MAX)
    => (ret.threw = "bad_alloc" /\ Len(blocks) = ret.pre.nblocks)

\* C10: the destructor releases the storage of every block of the chain that
\* starts at head exactly once, releases nothing else, and leaves head and
\* active null.
C10_TeardownReleasesChainOnce ==
    [][ (alive /\ ~alive')
        => (/\ \A b \in 1..Len(blocks) :
                  /\ released[b] = 0
                  /\ released'[b] = IF b \in Chain(blocks, _head) THEN 1 ELSE 0
            /\ _head' = NULL
            /\ _active' = NULL) ]_vars

\* C10 witness: an arena that had grown, been rolled back and grown again
\* was destroyed
C10_Witness ==
    /\ ~alive /\ Len(blocks) = 3
    /\ released[1] = 1 /\ released[3] = 1

\* C11: constructing an arena with initial block size s (65536 when omitted)
\* sets the growth seed to max(s, 1024) and creates exactly one block, which
\* is head and active, has capacity = growth seed, cursor = data and no next.
C11_Construction ==
    ret.op = "arena" =>
        /\ _block_size = (IF ret.bytes >= 1024 THEN ret.bytes ELSE 1024)
        /\ (ret.bytes = DefaultBlockSize => _block_size = 65536)
        /\ Len(blocks) = 1
        /\ _head = 1 /\ _active = _head
        /\ blocks[_head].capacity = _block_size
        /\ blocks[_head].end - blocks[_head].data = _block_size
        /\ blocks[_head].cur = blocks[_head].data
        /\ blocks[_head].next = NULL

\* C11 witness: an arena constructed with an initial block size below the floor
C11_Witness ==
    ret.op = "arena" /\ ret.bytes = 100 /\ blocks[_head].capacity = 1024

\* C12: the adapter's allocate does what the arena's allocate_bytes does with
\* the same arguments: the same address or the same bad_alloc, and the same
\* arena state afterwards.
C12_AdapterAllocateIsArenaAllocate ==
    [][ (ret'.op = "do_allocate" /\ ops' = ops + 1)
        => \E gap \in new_outcomes(ret'.bytes, ret'.alignment) :
              LET r == allocate_bytes(blocks, _active, _block_size,
                                      ret'.bytes, ret'.alignment, gap)
              IN  /\ ret'.p = r.p
                  /\ ret'.threw = (IF r.threw THEN "bad_alloc" ELSE "none")
                  /\ blocks' = r.blocks
                  /\ _active' = r.active
                  /\ UNCHANGED <<_block_size, _head, alive>> ]_vars

\* C12 witness: a request at alignment 64 made through the adapter grew the
\* arena and was served
C12_Witness ==
    /\ ret.op = "do_allocate" /\ ret.alignment = 64 /\ ret.threw = "none"
    /\ ret.p # NULL /\ Len(blocks) > ret.pre.nblocks

\* C13: the adapter's deallocate changes nothing: no cursor, no link, neither
\* head nor active, whatever its arguments.
C13_DeallocateIsNoOp ==
    [][ (ret'.op = "do_deallocate" /\ ops' = ops + 1)
        => UNCHANGED <<blocks, released, _block_size, _head, _active, alive>> ]_vars

\* C13 witness: the most recent allocation, which ends at the cursor of the
\* active block, was deallocated
C13_Witness ==
    /\ ret.op = "do_deallocate" /\ ret.p # NULL /\ ret.bytes > 1
    /\ ret.p + ret.bytes = blocks[_active].cur

\* C14: a make<T> whose constructor succeeds returns a non-null address that
\* is a multiple of alignof(T) and leaves the arena as a successful
\* allocate_bytes(sizeof(T), alignof(T)) leaves it: nothing is rolled back.
C14_SuccessfulMakeIsAllocate ==
    [][ (ret'.op = "make" /\ ret'.threw = "none" /\ ops' = ops + 1)
        => /\ ret'.p # NULL
           /\ ret'.p % ret'.alignment = 0
           /\ \E gap \in new_outcomes(ret'.bytes, ret'.alignment) :
                 LET a == allocate_bytes(blocks, _active, _block_size,
                                         ret'.bytes, ret'.alignment, gap)
                 IN  /\ ~a.threw
                     /\ ret'.p = a.p
                     /\ blocks' = a.blocks
                     /\ _active' = a.active
           /\ UNCHANGED <<_block_size, _head, alive>> ]_vars

\* C14 witness: a successful make of the 64-aligned type for which the arena
\* created a new block
C14_Witness ==
    /\ ret.op = "make" /\ ret.threw = "none" /\ ret.alignment = 64
    /\ Len(blocks) > ret.pre.nblocks /\ blocks[_active].cur > blocks[_active].data

\* C15: while the arena is used with markers of its own that are not stale,
\* every block has data <= cur <= end and capacity = end - data.
C15_BlocksWellFormed ==
    alive => \A b \in 1..Len(blocks) :
                /\ blocks[b].data <= blocks[b].cur
                /\ blocks[b].cur <= blocks[b].end
                /\ blocks[b].capacity = blocks[b].end - blocks[b].data

\* C16: from construction until teardown the active block is non-null and is
\* reachable from head by following next links.
C16_ActiveReachableFromHead ==
    alive => /\ _active # NULL
             /\ _head # NULL
             /\ _active \in Chain(blocks, _head)

\* C16 witness: the active block is the third of a chain that grew twice
C16_Witness ==
    /\ alive /\ Len(blocks) = 3 /\ _active = 3
    /\ Chain(blocks, _head) = {1, 2, 3}

\* C17: growth links the new block as the tail and removes no block from the
\* chain: every block the arena has created stays reachable from head until
\* teardown, also when the growth follows a rollback to an earlier block.
C17_EveryBlockStaysReachable ==
    alive => Chain(blocks, _head) = 1..Len(blocks)

\* C18: a call creates at most one block, and whenever it creates one the
\* retry in that block succeeds: no bad_alloc follows a growth, and the region
\* returned lies in the new block, at every size and power-of-two alignment.
C18_RetryAfterGrowthSucceeds ==
    (ret.op \in {"allocate_bytes", "make"} /\ Len(blocks) # ret.pre.nblocks)
        => /\ Len(blocks) = ret.pre.nblocks + 1
           /\ ret.threw # "bad_alloc"
           /\ ret.p # NULL
           /\ ret.p % EffectiveAlignment(ret.alignment) = 0
           /\ blocks[Len(blocks)].data <= ret.p
           /\ ret.p + ret.bytes <= blocks[Len(blocks)].end

\* C18 witness: a request at alignment 64 got a new block of exactly
\* bytes + alignment whose storage is not 64-aligned, so the retry had to pad
C18_Witness ==
    /\ ret.op = "allocate_bytes" /\ ret.alignment = 64 /\ ret.threw = "none"
    /\ Len(blocks) = ret.pre.nblocks + 1
    /\ blocks[Len(blocks)].capacity = ret.bytes + 64
    /\ ret.p > blocks[Len(blocks)].data

\* C19: across an allocate_bytes, a create_marker or a successful make no
\* block's cursor decreases; only a rollback moves a cursor backwards.
C19_CursorsNeverDecrease ==
    [][ ( /\ ops' = ops + 1
          /\ \/ ret'.op \in {"allocate_bytes", "create_marker"}
             \/ ret'.op = "make" /\ ret'.threw = "none" )
        => \A b \in 1..Len(blocks) : blocks'[b].cur >= blocks[b].cur ]_vars

\* C20: a successful allocate_bytes that does not grow changes only the cursor
\* of the active block; one that grows changes only the next link of the old
\* active block, the active reference and the new block. No other block's
\* cursor moves, even when an earlier block has room for the request.
C20_NoBackfilling ==
    [][ ( /\ ops' = ops + 1
          /\ ret'.op = "allocate_bytes" /\ ret'.bytes > 0 /\ ret'.threw = "none" )
        => /\ UNCHANGED <<_head, _block_size, alive>>
           /\ \A b \in 1..Len(blocks) : b # _active => blocks'[b] = blocks[b]
           /\ IF Len(blocks') = Len(blocks)
              THEN /\ _active' = _active
                   /\ blocks'[_active] =
                        [blocks[_active] EXCEPT !.cur = blocks'[_active].cur]
                   /\ (ret'.p + ret'.bytes) % Word = blocks'[_active].cur
              ELSE /\ Len(blocks') = Len(blocks) + 1
                   /\ _active' = Len(blocks')
                   /\ blocks'[_active] = [blocks[_active] EXCEPT !.next = _active']
                   /\ (ret'.p + ret'.bytes) % Word = blocks'[_active'].cur ]_vars

\* C20 witness: an allocation was served from the active block while the head
\* block, which is not active, had room for it at its own cursor
C20_Witness ==
    /\ Allocated /\ _active # _head
    /\ ret.p + ret.bytes = blocks[_active].cur
    /\ RoundUp(blocks[_head].cur, EffectiveAlignment(ret.alignment)) + ret.bytes
          <= blocks[_head].end

\* C21: an allocate_bytes that throws bad_alloc, for an overflowing
\* bytes + alignment or for a refused operator new, leaves the arena exactly
\* as it was (chain, active block, cursors), and the next allocate_bytes that
\* fits in the active block is served from it.
C21_FailedAllocateChangesNothing ==
    [][ /\ ( /\ ops' = ops + 1
             /\ ret'.op = "allocate_bytes" /\ ret'.threw = "bad_alloc" )
           => /\ ret'.p = NULL
              /\ UNCHANGED <<blocks, released, _block_size, _head, _active, alive>>
        /\ ( /\ ops' = ops + 1
             /\ ret.op = "allocate_bytes" /\ ret.threw = "bad_alloc"
             /\ ret'.op = "allocate_bytes" /\ ret'.bytes > 0
             /\ RoundUp(blocks[_active].cur, EffectiveAlignment(ret'.alignment))
                   + ret'.bytes <= blocks[_active].end )
           => /\ ret'.threw = "none"
              /\ _active' = _active
              /\ ret'.p = RoundUp(blocks[_active].cur,
                                  EffectiveAlignment(ret'.alignment)) ]_vars

\* C21 witness: operator new refused the block for a request at alignment 64
\* while the cursor of the active block was not 64-aligned
C21_Witness ==
    /\ ret.op = "allocate_bytes" /\ ret.threw = "bad_alloc"
    /\ ret.bytes = 3008 /\ ret.alignment = 64
    /\ blocks[_active].cur % 64 # 0
    /\ blocks[_active].cur = ret.pre.cur

\* C22: with markers used as allowed, every block that follows the active
\* block in the chain is empty (cur = data); hence a create_marker directly
\* followed by rollback_to of that marker changes nothing in the arena.
C22_BlocksAfterActiveAreEmpty ==
    /\ [](alive => \A b \in Chain(blocks, blocks[_active].next) :
                      blocks[b].cur = blocks[b].data)
    /\ [][ ( /\ ops' = ops + 1
             /\ ret.op = "create_marker"
             /\ ret'.op = "rollback_to" /\ ret'.m = ret.m )
           => UNCHANGED <<blocks, released, _block_size, _head, _active, alive>> ]_vars

\* C22 witness: a rollback moved the active block back from a later block in
\* which allocations had been made, and that block follows it in the chain
C22_Witness ==
    /\ alive /\ ret.op = "rollback_to" /\ ret.pre.active # _active
    /\ ret.pre.active \in Chain(blocks, blocks[_active].next)
    /\ ret.pre.cur > blocks[ret.pre.active].data
    /\ blocks[ret.pre.active].cur = blocks[ret.pre.active].data

\* regions [p1, p1 + n1) and [p2, p2 + n2) have no byte in common
Disjoint(p1, n1, p2, n2) == p1 + n1 <= p2 \/ p2 + n2 <= p1

\* C23: the regions returned by successful allocate_bytes calls (bytes > 0)
\* with no rollback_to between or after them are pairwise disjoint; stated of
\* the calls a caller has made since its create_marker.
C23_LiveRegionsDisjoint ==
    (scn.m # 0 /\ scn.pos = 0)
        => \A i, j \in DOMAIN scn.S :
              i < j => Disjoint(scn.S[i].p, scn.S[i].bytes, scn.S[j].p, scn.S[j].bytes)

====
